---------------------------- MODULE Spec2Model ----------------------------
(***************************************************************************)
(* Model of the two firmware primitives of the repository:                 *)
(*   - the static circular queue     (src/app/queue.c, src/app/queue.h)    *)
(*   - the polled button debouncer   (src/app/buttons.c, src/app/buttons.h)*)
(*                                                                         *)
(* Specifications:                                                         *)
(*   SpecQueue  the queue driven by whole calls, one after another         *)
(*   SpecSPSC   one writer context and one reader context on the queue,    *)
(*              interleaved between the individual accesses to the fields  *)
(*   SpecButtons the debouncer driven by whole calls of its operations     *)
(*   SpecTicks  a keyboard whose first button is registered and then only  *)
(*              sampled, the pin levels it read being recorded             *)
(***************************************************************************)
EXTENDS Integers, Sequences, FiniteSets, TLC

(***************************************************************************)
(* Bounds of the model.                                                    *)
(***************************************************************************)
\* largest capacity (Elements) handed to Queue_Init
MaxElements == 3
\* largest element size in bytes (Size) handed to Queue_Init
MaxSize == 2

\* largest number of buttons (NButtons) handed to Buttons_Init
MaxButtons == 2
\* largest confirmation threshold (Samples) handed to Buttons_Init
MaxSamples == 3
\* longest recorded run of Buttons_MainFunction calls in SpecTicks
MaxTicks == 7

\* Byte values stored in elements. memcpy never inspects the data it copies,
\* so two distinct values stand for the 256 of a uint8_t.
Byte == {0, 255}

VARIABLES
    Queue,      \* the QueueType control structure (queue.h:16-25)
    Buffer,     \* the caller's memory Queue->Buffer points to, byte by byte
    Dest,       \* the caller's destination element handed to Queue_ReadData
    written,    \* history: elements written and not yet read, oldest first
    lastCall    \* history: the last call made, what it returned, and how many
                \* elements were stored when it was made
VARIABLES
    wctx,       \* writer context: where it stands inside Queue_WriteData, its Data
    rctx,       \* reader context: where it stands inside Queue_ReadData, and
                \* (history) the element its memcpy was due to deliver
    overlap     \* history: some call ran while a call of the other context was
                \* in progress

VARIABLES
    Keyboard,   \* the KeyboardType control structure (buttons.h:32-38)
    BtnBuffer,  \* the caller's ButtonType array Keyboard->BtnBuffer points to
    pins,       \* history: per button, the level its latest Sample_Button call
                \* read (-1 before the first)
    kbCall,     \* history: the last call made on the keyboard and its result
    hist        \* history. levels, resets (SpecTicks): the levels read for the
                \* first button since it was registered, and how often PRESS
                \* fell back to IDLE. confirmed (SpecEvents): per button, the
                \* last two events Sample_Button assigned, latest last.
                \* ticks (SpecLive): parity of the Buttons_MainFunction calls.

vars == <<Queue, Buffer, Dest, written, lastCall, wctx, rctx, overlap,
          Keyboard, BtnBuffer, pins, kbCall, hist>>
svars == <<wctx, rctx, overlap>>
kvars == <<Keyboard, BtnBuffer, pins, kbCall, hist>>
queuevars == <<Queue, Buffer, Dest, written, lastCall, wctx, rctx, overlap>>

(***************************************************************************)
(* Circular queue, src/app/queue.c                                         *)
(***************************************************************************)

\* An element as the caller holds it: Size bytes.
Element(size) == [1..size -> Byte]

\* memcpy( &mem[off], data, n ): n bytes of data land at offset off.
Memcpy(mem, off, data, n) ==
    [i \in DOMAIN mem |-> IF off <= i /\ i < off + n THEN data[i - off + 1] ELSE mem[i]]

\* The n bytes of mem from offset off, as memcpy( Data, &mem[off], n ) copies them.
Fetch(mem, off, n) == [k \in 1..n |-> mem[off + k - 1]]

\* Fault: the slot address computed without the element size.
SlotOffsetNoSize(q, index) == index

\* &( (uint8_t *)Queue->Buffer )[ index * Queue->Size ]
SlotOffset(q, index) == index * q.Size

\* Fault: the index advanced without the wrap to the beginning.
NextIndexNoWrap(q, index) == index + 1

\* index++; index %= Queue->Elements;   (uint32_t: index < Elements <= 2^32 - 1,
\* so the increment cannot wrap before the modulo is taken)
NextIndex(q, index) == (index + 1) % q.Elements

\* Fault: a Queue_Init that leaves the Full flag as it finds it.
Queue_InitStale(q, buffer, elements, size) ==
    [q EXCEPT !.Buffer = buffer, !.Elements = elements, !.Size = size,
              !.Empty = TRUE, !.Head = 0, !.Tail = 0]

\* Queue_Init: binds buffer, capacity and element size; empty, not full, indices 0.
QueueInit(q, buffer, elements, size) ==
    [q EXCEPT !.Buffer = buffer, !.Elements = elements, !.Size = size,
              !.Empty = TRUE, !.Full = FALSE, !.Head = 0, !.Tail = 0]

\* Fault: Queue_WriteData without its test of Full.
WriteAlways(q) == TRUE

\* if( Queue->Full == FALSE ) in Queue_WriteData
WriteAllowed(q) == q.Full = FALSE

\* Fault: Queue_ReadData without its test of Empty.
ReadAlways(q) == TRUE

\* if( Queue->Empty == FALSE ) in Queue_ReadData
ReadAllowed(q) == q.Empty = FALSE

\* The body of Queue_WriteData on queue q over memory mem: the queue, the memory
\* and the value returned.
WriteData(q, mem, data) ==
    IF WriteAllowed(q)
    THEN LET mem1 == Memcpy(mem, SlotOffset(q, q.Head), data, q.Size)
             q1 == [q EXCEPT !.Empty = FALSE]
             q2 == [q1 EXCEPT !.Head = NextIndex(q1, q1.Head)]
             q3 == IF q2.Head = q2.Tail THEN [q2 EXCEPT !.Full = TRUE] ELSE q2
         IN [queue |-> q3, mem |-> mem1, result |-> TRUE]
    ELSE [queue |-> q, mem |-> mem, result |-> FALSE]

\* Fault: Queue_ReadData without its Queue->Full = FALSE.
ReadDataKeepsFull(q, mem, data) ==
    IF q.Empty = FALSE
    THEN LET out == Fetch(mem, SlotOffset(q, q.Tail), q.Size)
             q2 == [q EXCEPT !.Tail = NextIndex(q, q.Tail)]
             q3 == IF q2.Tail = q2.Head THEN [q2 EXCEPT !.Empty = TRUE] ELSE q2
         IN [queue |-> q3, data |-> out, result |-> TRUE]
    ELSE [queue |-> q, data |-> data, result |-> FALSE]

\* The body of Queue_ReadData: the queue, the caller's element and the value returned.
ReadData(q, mem, data) ==
    IF ReadAllowed(q)
    THEN LET out == Fetch(mem, SlotOffset(q, q.Tail), q.Size)
             q1 == [q EXCEPT !.Full = FALSE]
             q2 == [q1 EXCEPT !.Tail = NextIndex(q1, q1.Tail)]
             q3 == IF q2.Tail = q2.Head THEN [q2 EXCEPT !.Empty = TRUE] ELSE q2
         IN [queue |-> q3, data |-> out, result |-> TRUE]
    ELSE [queue |-> q, data |-> data, result |-> FALSE]

\* Fault: emptiness told from the indices alone, which also meet when full.
isQueueEmptyByIndex(q) == q.Head = q.Tail

\* return Queue->Empty;
isQueueEmpty(q) == q.Empty

\* Queue_FlushQueue: Queue_Init( Queue, Queue->Buffer, Queue->Elements, Queue->Size )
FlushQueue(q) == QueueInit(q, q.Buffer, q.Elements, q.Size)

\* The keyboard takes no part in the specifications of the queue.
KeyboardUnused ==
    /\ Keyboard = [Buttons |-> 0, Sample |-> 0, Counter |-> 0]
    /\ BtnBuffer = <<>>
    /\ pins = <<>>
    /\ kbCall = [op |-> "none", arg |-> 0, ret |-> 0, oob |-> FALSE]
    /\ hist = [levels |-> <<>>, resets |-> 0, confirmed |-> <<>>, ticks |-> 0]

\* The caller declares storage of Elements * Size bytes, uninitialised, and a
\* QueueType, and calls Queue_Init on them.
InitQueue ==
    \E elements \in 1..MaxElements, size \in 1..MaxSize :
        /\ Buffer \in [0..(elements * size - 1) -> Byte]
        /\ Queue = QueueInit([Buffer |-> "storage", Elements |-> 0, Size |-> 0,
                              Head |-> 0, Tail |-> 0, Empty |-> FALSE, Full |-> FALSE],
                             "storage", elements, size)
        /\ Dest \in Element(size)
        /\ written = <<>>
        /\ lastCall = [op |-> "Queue_Init", ret |-> TRUE, stored |-> 0]
        /\ wctx = [pc |-> "idle", data |-> <<>>]
        /\ rctx = [pc |-> "idle", expect |-> <<>>]
        /\ overlap = FALSE
        /\ KeyboardUnused

Queue_WriteData ==
    \E data \in Element(Queue.Size) :
        LET r == WriteData(Queue, Buffer, data) IN
        /\ Queue' = r.queue
        /\ Buffer' = r.mem
        /\ written' = IF r.result THEN Append(written, data) ELSE written
        /\ lastCall' = [op |-> "Queue_WriteData", ret |-> r.result, stored |-> Len(written)]
        /\ UNCHANGED <<Dest, svars, kvars>>

Queue_ReadData ==
    LET r == ReadData(Queue, Buffer, Dest) IN
    /\ Queue' = r.queue
    /\ Dest' = r.data
    /\ written' = IF r.result /\ written # <<>> THEN Tail(written) ELSE written
    /\ lastCall' = [op |-> "Queue_ReadData", ret |-> r.result, stored |-> Len(written)]
    /\ UNCHANGED <<Buffer, svars, kvars>>

Queue_isQueueEmpty ==
    /\ lastCall' = [op |-> "Queue_isQueueEmpty", ret |-> isQueueEmpty(Queue),
                    stored |-> Len(written)]
    /\ UNCHANGED <<Queue, Buffer, Dest, written, svars, kvars>>

Queue_FlushQueue ==
    /\ Queue' = FlushQueue(Queue)
    /\ written' = <<>>
    /\ lastCall' = [op |-> "Queue_FlushQueue", ret |-> TRUE, stored |-> Len(written)]
    /\ UNCHANGED <<Buffer, Dest, svars, kvars>>

NextQueue ==
    \/ Queue_WriteData
    \/ Queue_ReadData
    \/ Queue_isQueueEmpty
    \/ Queue_FlushQueue

SpecQueue == InitQueue /\ [][NextQueue]_vars

(***************************************************************************)
(* One writer and one reader context, no serialisation (SpecSPSC).         *)
(* Each context runs its calls one after another; the two interleave       *)
(* between the accesses Queue_WriteData and Queue_ReadData make to Full,   *)
(* Empty, Head, Tail and the buffer, in program order.                     *)
(***************************************************************************)

\* The queue of SpecSPSC holds one-byte elements: the race is on the flags and
\* the indices, and a one-byte memcpy cannot be seen half done.
InitSPSC == InitQueue /\ Queue.Size = 1

\* A step of the writer (reader) overlaps when the other context is inside a call.
WriterOverlaps == overlap \/ rctx.pc # "idle"
ReaderOverlaps == overlap \/ wctx.pc # "idle"

\* Queue_WriteData is entered with some Data. The run is followed no further once
\* more elements are pending than the queue has slots (an element was overwritten).
W_Call ==
    /\ wctx.pc = "idle"
    /\ Len(written) <= Queue.Elements
    /\ \E data \in Element(Queue.Size) : wctx' = [pc |-> "checkFull", data |-> data]
    /\ overlap' = WriterOverlaps
    /\ UNCHANGED <<Queue, Buffer, Dest, written, lastCall, rctx, kvars>>

\* if( Queue->Full == FALSE ), and return FALSE when it is not
W_CheckFull ==
    /\ wctx.pc = "checkFull"
    /\ IF WriteAllowed(Queue)
       THEN wctx' = [wctx EXCEPT !.pc = "copy"] /\ UNCHANGED lastCall
       ELSE /\ wctx' = [wctx EXCEPT !.pc = "idle"]
            /\ lastCall' = [op |-> "Queue_WriteData", ret |-> FALSE,
                            stored |-> Len(written)]
    /\ overlap' = WriterOverlaps
    /\ UNCHANGED <<Queue, Buffer, Dest, written, rctx, kvars>>

\* memcpy( &Buffer[ Head * Size ], Data, Size )
W_Copy ==
    /\ wctx.pc = "copy"
    /\ Buffer' = Memcpy(Buffer, SlotOffset(Queue, Queue.Head), wctx.data, Queue.Size)
    /\ written' = Append(written, wctx.data)
    /\ wctx' = [wctx EXCEPT !.pc = "clearEmpty"]
    /\ overlap' = WriterOverlaps
    /\ UNCHANGED <<Queue, Dest, lastCall, rctx, kvars>>

\* Queue->Empty = FALSE
W_ClearEmpty ==
    /\ wctx.pc = "clearEmpty"
    /\ Queue' = [Queue EXCEPT !.Empty = FALSE]
    /\ wctx' = [wctx EXCEPT !.pc = "incHead"]
    /\ overlap' = WriterOverlaps
    /\ UNCHANGED <<Buffer, Dest, written, lastCall, rctx, kvars>>

\* Queue->Head++
W_IncHead ==
    /\ wctx.pc = "incHead"
    /\ Queue' = [Queue EXCEPT !.Head = Queue.Head + 1]
    /\ wctx' = [wctx EXCEPT !.pc = "modHead"]
    /\ overlap' = WriterOverlaps
    /\ UNCHANGED <<Buffer, Dest, written, lastCall, rctx, kvars>>

\* Queue->Head %= Queue->Elements
W_ModHead ==
    /\ wctx.pc = "modHead"
    /\ Queue' = [Queue EXCEPT !.Head = Queue.Head % Queue.Elements]
    /\ wctx' = [wctx EXCEPT !.pc = "compare"]
    /\ overlap' = WriterOverlaps
    /\ UNCHANGED <<Buffer, Dest, written, lastCall, rctx, kvars>>

\* if( Queue->Head == Queue->Tail ), and return TRUE when they differ
W_Compare ==
    /\ wctx.pc = "compare"
    /\ IF Queue.Head = Queue.Tail
       THEN wctx' = [wctx EXCEPT !.pc = "setFull"] /\ UNCHANGED lastCall
       ELSE /\ wctx' = [wctx EXCEPT !.pc = "idle"]
            /\ lastCall' = [op |-> "Queue_WriteData", ret |-> TRUE,
                            stored |-> Len(written)]
    /\ overlap' = WriterOverlaps
    /\ UNCHANGED <<Queue, Buffer, Dest, written, rctx, kvars>>

\* Queue->Full = TRUE; return TRUE
W_SetFull ==
    /\ wctx.pc = "setFull"
    /\ Queue' = [Queue EXCEPT !.Full = TRUE]
    /\ wctx' = [wctx EXCEPT !.pc = "idle"]
    /\ lastCall' = [op |-> "Queue_WriteData", ret |-> TRUE, stored |-> Len(written)]
    /\ overlap' = WriterOverlaps
    /\ UNCHANGED <<Buffer, Dest, written, rctx, kvars>>

\* Queue_ReadData is entered.
R_Call ==
    /\ rctx.pc = "idle"
    /\ rctx' = [pc |-> "checkEmpty", expect |-> <<>>]
    /\ overlap' = ReaderOverlaps
    /\ UNCHANGED <<Queue, Buffer, Dest, written, lastCall, wctx, kvars>>

\* if( Queue->Empty == FALSE ), and return FALSE when it is not
R_CheckEmpty ==
    /\ rctx.pc = "checkEmpty"
    /\ IF ReadAllowed(Queue)
       THEN rctx' = [rctx EXCEPT !.pc = "copy"] /\ UNCHANGED lastCall
       ELSE /\ rctx' = [rctx EXCEPT !.pc = "idle"]
            /\ lastCall' = [op |-> "Queue_ReadData", ret |-> FALSE,
                            stored |-> Len(written)]
    /\ overlap' = ReaderOverlaps
    /\ UNCHANGED <<Queue, Buffer, Dest, written, wctx, kvars>>

\* memcpy( Data, &Buffer[ Tail * Size ], Size )
R_Copy ==
    /\ rctx.pc = "copy"
    /\ Dest' = Fetch(Buffer, SlotOffset(Queue, Queue.Tail), Queue.Size)
    /\ rctx' = [pc |-> "clearFull",
                expect |-> IF written # <<>> THEN Head(written) ELSE <<-1>>]
    /\ written' = IF written # <<>> THEN Tail(written) ELSE written
    /\ overlap' = ReaderOverlaps
    /\ UNCHANGED <<Queue, Buffer, lastCall, wctx, kvars>>

\* Queue->Full = FALSE
R_ClearFull ==
    /\ rctx.pc = "clearFull"
    /\ Queue' = [Queue EXCEPT !.Full = FALSE]
    /\ rctx' = [rctx EXCEPT !.pc = "incTail"]
    /\ overlap' = ReaderOverlaps
    /\ UNCHANGED <<Buffer, Dest, written, lastCall, wctx, kvars>>

\* Queue->Tail++
R_IncTail ==
    /\ rctx.pc = "incTail"
    /\ Queue' = [Queue EXCEPT !.Tail = Queue.Tail + 1]
    /\ rctx' = [rctx EXCEPT !.pc = "modTail"]
    /\ overlap' = ReaderOverlaps
    /\ UNCHANGED <<Buffer, Dest, written, lastCall, wctx, kvars>>

\* Queue->Tail %= Queue->Elements
R_ModTail ==
    /\ rctx.pc = "modTail"
    /\ Queue' = [Queue EXCEPT !.Tail = Queue.Tail % Queue.Elements]
    /\ rctx' = [rctx EXCEPT !.pc = "compare"]
    /\ overlap' = ReaderOverlaps
    /\ UNCHANGED <<Buffer, Dest, written, lastCall, wctx, kvars>>

\* if( Queue->Tail == Queue->Head ), and return TRUE when they differ
R_Compare ==
    /\ rctx.pc = "compare"
    /\ IF Queue.Tail = Queue.Head
       THEN rctx' = [rctx EXCEPT !.pc = "setEmpty"] /\ UNCHANGED lastCall
       ELSE /\ rctx' = [rctx EXCEPT !.pc = "idle"]
            /\ lastCall' = [op |-> "Queue_ReadData", ret |-> TRUE,
                            stored |-> Len(written)]
    /\ overlap' = ReaderOverlaps
    /\ UNCHANGED <<Queue, Buffer, Dest, written, wctx, kvars>>

\* Queue->Empty = TRUE; return TRUE
R_SetEmpty ==
    /\ rctx.pc = "setEmpty"
    /\ Queue' = [Queue EXCEPT !.Empty = TRUE]
    /\ rctx' = [rctx EXCEPT !.pc = "idle"]
    /\ lastCall' = [op |-> "Queue_ReadData", ret |-> TRUE, stored |-> Len(written)]
    /\ overlap' = ReaderOverlaps
    /\ UNCHANGED <<Buffer, Dest, written, wctx, kvars>>

NextSPSC ==
    \/ W_Call \/ W_CheckFull \/ W_Copy \/ W_ClearEmpty
    \/ W_IncHead \/ W_ModHead \/ W_Compare \/ W_SetFull
    \/ R_Call \/ R_CheckEmpty \/ R_Copy \/ R_ClearFull
    \/ R_IncTail \/ R_ModTail \/ R_Compare \/ R_SetEmpty

SpecSPSC == InitSPSC /\ [][NextSPSC]_vars

(***************************************************************************)
(* Claims about the queue under whole calls (SpecQueue)                    *)
(***************************************************************************)

\* The step is a call of op (the call just made is recorded in lastCall').
Called(op) == lastCall'.op = op
Returned(op, ret) == lastCall'.op = op /\ lastCall'.ret = ret

\* C1: FIFO round trip. Every successful Queue_ReadData hands the caller a
\* byte-exact copy of the oldest element written and not yet read, and removes
\* exactly that one; an element written and not yet read can always be read
\* (none is lost), so the k-th successful read returns the k-th written element.
C1_FifoRoundTrip ==
    [][ /\ (written # <<>> => Queue.Empty = FALSE)
        /\ (Returned("Queue_ReadData", TRUE) =>
                /\ written # <<>>
                /\ Dest' = Head(written)
                /\ written' = Tail(written)) ]_vars

\* C1 witness: a successful read after the indices wrapped, more elements pending.
C1_Witness ==
    /\ lastCall.op = "Queue_ReadData" /\ lastCall.ret
    /\ Queue.Size = MaxSize /\ Queue.Head < Queue.Tail
    /\ written # <<>> /\ Dest # written[1]

\* C2: write on full. A write succeeds exactly while fewer than C elements are
\* stored (C writes after Queue_Init succeed, the next fails); a write on a full
\* queue returns failure and changes neither the control structure nor any
\* buffer byte; the stored elements are still read back in order, and the read
\* of the last one leaves the queue empty.
C2_WriteOnFull ==
    [][ /\ (Called("Queue_WriteData") =>
                (lastCall'.ret <=> Len(written) < Queue.Elements))
        /\ (Called("Queue_WriteData") /\ Queue.Full =>
                /\ lastCall'.ret = FALSE
                /\ UNCHANGED <<Queue, Buffer, written>>)
        /\ (Called("Queue_ReadData") /\ Queue.Full =>
                /\ lastCall'.ret = TRUE
                /\ Dest' = Head(written))
        /\ (Called("Queue_ReadData") /\ Len(written) = 1 =>
                Queue'.Empty /\ isQueueEmpty(Queue')) ]_vars

\* C2 witness: a write was just refused by a queue of capacity >= 2 holding C elements.
C2_Witness ==
    /\ lastCall = [op |-> "Queue_WriteData", ret |-> FALSE, stored |-> Queue.Elements]
    /\ Queue.Elements >= 2 /\ Queue.Full /\ Len(written) = Queue.Elements

\* C3: read on empty. Queue_ReadData on a queue whose Empty flag is set returns
\* failure, leaves the caller's element as it was and changes nothing of the queue.
C3_ReadOnEmpty ==
    [][ Called("Queue_ReadData") /\ Queue.Empty =>
            /\ lastCall'.ret = FALSE
            /\ UNCHANGED <<Queue, Buffer, Dest, written>> ]_vars

\* C3 witness: a read was just refused while the slot at Tail holds bytes that
\* differ from the caller's element (a copy would have shown).
C3_Witness ==
    /\ lastCall.op = "Queue_ReadData" /\ lastCall.ret = FALSE
    /\ Queue.Empty
    /\ Dest # Fetch(Buffer, SlotOffset(Queue, Queue.Tail), Queue.Size)

\* C4: structural invariant. Head and Tail stay inside 0..C-1, Full implies
\* Head = Tail, Empty implies Head = Tail, and Full and Empty are never both set.
C4_StructuralInvariant ==
    /\ Queue.Head \in 0..(Queue.Elements - 1)
    /\ Queue.Tail \in 0..(Queue.Elements - 1)
    /\ (Queue.Full => Queue.Head = Queue.Tail)
    /\ (Queue.Empty => Queue.Head = Queue.Tail)
    /\ ~(Queue.Full /\ Queue.Empty)

\* C4 witness: a full queue whose indices have wrapped to a slot other than 0.
C4_Witness ==
    /\ Queue.Full /\ Queue.Head = Queue.Tail /\ Queue.Head > 0
    /\ Len(written) = Queue.Elements

\* C5: Queue_isQueueEmpty is exact and pure. It returns TRUE exactly when as many
\* elements were read as were written since Queue_Init / Queue_FlushQueue, and
\* the call changes nothing of the queue, the buffer or the caller's element.
C5_IsEmptyExact ==
    [][ Called("Queue_isQueueEmpty") =>
            /\ (lastCall'.ret <=> written = <<>>)
            /\ UNCHANGED <<Queue, Buffer, Dest, written>> ]_vars

\* C5 witness: Queue_isQueueEmpty just answered FALSE on a full queue (Head = Tail).
C5_Witness ==
    /\ lastCall.op = "Queue_isQueueEmpty" /\ lastCall.ret = FALSE
    /\ Queue.Head = Queue.Tail /\ written # <<>>

\* C6: Queue_FlushQueue. From any state it leaves Head = Tail = 0, Empty set,
\* Full clear, the bound buffer, capacity and element size as they were, and every
\* buffer byte untouched. A read right after it fails and copies nothing, the
\* queue then accepts writes exactly until C are stored, and a read returns only
\* elements written after the flush.
C6_Flush ==
    [][ /\ (Called("Queue_FlushQueue") =>
                /\ Queue' = [Queue EXCEPT !.Head = 0, !.Tail = 0,
                                          !.Empty = TRUE, !.Full = FALSE]
                /\ Buffer' = Buffer
                /\ Dest' = Dest
                /\ written' = <<>>)
        /\ (lastCall.op = "Queue_FlushQueue" /\ Called("Queue_ReadData") =>
                lastCall'.ret = FALSE /\ Dest' = Dest)
        /\ (lastCall.op = "Queue_FlushQueue" /\ Called("Queue_WriteData") =>
                lastCall'.ret = TRUE /\ Queue'.Head = 1 % Queue.Elements)
        /\ (Called("Queue_WriteData") /\ Len(written) = Queue.Elements =>
                lastCall'.ret = FALSE)
        /\ (Returned("Queue_ReadData", TRUE) =>
                written # <<>> /\ Dest' = Head(written)) ]_vars

\* C6 witness: a full queue of capacity >= 2 was just flushed; its bytes remain.
C6_Witness ==
    /\ lastCall = [op |-> "Queue_FlushQueue", ret |-> TRUE, stored |-> Queue.Elements]
    /\ Queue.Elements >= 2 /\ Queue.Empty /\ ~Queue.Full
    /\ \E i \in DOMAIN Buffer : Buffer[i] # Buffer[0]

(***************************************************************************)
(* Claims about the queue shared by a writer and a reader (SpecSPSC)       *)
(***************************************************************************)

\* Neither context is inside a call.
Quiescent == wctx.pc = "idle" /\ rctx.pc = "idle"

\* What "the queue stays safe" asks of a state: the element a read copies out is
\* the oldest one written and not yet read, no more elements are pending than
\* the queue has slots (none is overwritten before it is read), and between
\* calls the flags are not both set (a write or a read can succeed) and tell
\* whether elements are pending.
SafeQueue ==
    /\ (rctx.expect # <<>> => Dest = rctx.expect)
    /\ Len(written) <= Queue.Elements
    /\ (Quiescent => ~(Queue.Full /\ Queue.Empty))
    /\ (Quiescent => (Queue.Empty <=> written = <<>>))
    /\ (Quiescent => (Queue.Full <=> Len(written) = Queue.Elements))

\* C7 as claimed: with one writer and one reader context interleaving between
\* the individual field accesses, with no serialisation, the queue stays safe.
C7_Original == SafeQueue

\* C7 as amended: with one writer and one reader context whose calls the caller
\* serialises (no call runs while a call of the other context is in progress),
\* the queue stays safe.
C7_SerialisedSafe == ~overlap => SafeQueue

\* C7 witness: calls that never overlapped; the reader just got the element due,
\* after the indices wrapped, and elements are still pending.
C7_Witness ==
    /\ ~overlap /\ Quiescent
    /\ lastCall.op = "Queue_ReadData" /\ lastCall.ret
    /\ rctx.expect # <<>> /\ Dest = rctx.expect
    /\ Queue.Head < Queue.Tail /\ written # <<>>

(***************************************************************************)
(* Button debouncer, src/app/buttons.c                                     *)
(***************************************************************************)

\* ButtonStates (buttons.c:18-24)
ST_IDLE == 0
ST_PRESS == 1
ST_HOLD == 2
ST_RELEASE == 3

\* BtnEvents (buttons.h:44-49)
BTN_IDLE == 0
BTN_PRESSED == 1
BTN_RELEASED == 2

\* Buttons_states (buttons.h:54-55)
BTN_INACTIVE == 0
BTN_ACTIVE == 1

\* What HAL_GPIO_ReadPin returns: GPIO_PIN_RESET or GPIO_PIN_SET.
Levels == {0, 1}
\* Pin and port numbers handed to Buttons_Register; Ports[] has GPIOA..GPIOF.
Pins == {0, 13}
Ports == {2}

\* What the caller's ButtonType array may hold before a slot is registered.
GarbageButton ==
    { [Pin |-> 0, Port |-> 0, Counter |-> 0, Event |-> BTN_IDLE,
       Status |-> BTN_INACTIVE, ActiveLevel |-> 0, smState |-> ST_IDLE],
      [Pin |-> 255, Port |-> 255, Counter |-> 255, Event |-> BTN_RELEASED,
       Status |-> BTN_ACTIVE, ActiveLevel |-> 1, smState |-> ST_RELEASE] }

\* Buttons_Init
ButtonsInit(kb, nbuttons, samples) ==
    [kb EXCEPT !.Buttons = nbuttons, !.Sample = samples, !.Counter = 0]

\* if( Buttons->Counter < Buttons->Buttons ) in Buttons_Register
RegisterAllowed(kb) == kb.Counter < kb.Buttons

\* Buttons_Register leaving the slot's Status as the caller's memory had it.
RegisterStatusStale(kb, buf, pin, port, activeLevel) ==
    IF kb.Counter < kb.Buttons
    THEN LET b == [buf[kb.Counter] EXCEPT !.Pin = pin, !.Port = port,
                                          !.ActiveLevel = activeLevel,
                                          !.Event = BTN_IDLE,
                                          !.smState = ST_IDLE]
             kb1 == [kb EXCEPT !.Counter = (kb.Counter + 1) % 256]
         IN [kb |-> kb1, buf |-> [buf EXCEPT ![kb.Counter] = b], result |-> kb1.Counter]
    ELSE [kb |-> kb, buf |-> buf, result |-> 0]

\* Buttons_Register returning the slot number instead of the button ID.
RegisterZeroBased(kb, buf, pin, port, activeLevel) ==
    IF kb.Counter < kb.Buttons
    THEN LET b == [buf[kb.Counter] EXCEPT !.Pin = pin, !.Port = port,
                                          !.ActiveLevel = activeLevel,
                                          !.Status = BTN_INACTIVE,
                                          !.Event = BTN_IDLE,
                                          !.smState = ST_IDLE]
         IN [kb |-> [kb EXCEPT !.Counter = (kb.Counter + 1) % 256],
             buf |-> [buf EXCEPT ![kb.Counter] = b], result |-> kb.Counter]
    ELSE [kb |-> kb, buf |-> buf, result |-> 0]

\* The body of Buttons_Register: the keyboard, the array and the value returned.
\* The slot's Counter field is not written.
Register(kb, buf, pin, port, activeLevel) ==
    IF RegisterAllowed(kb)
    THEN LET b == [buf[kb.Counter] EXCEPT !.Pin = pin, !.Port = port,
                                          !.ActiveLevel = activeLevel,
                                          !.Status = BTN_INACTIVE,
                                          !.Event = BTN_IDLE,
                                          !.smState = ST_IDLE]
             kb1 == [kb EXCEPT !.Counter = (kb.Counter + 1) % 256]
         IN [kb |-> kb1, buf |-> [buf EXCEPT ![kb.Counter] = b], result |-> kb1.Counter]
    ELSE [kb |-> kb, buf |-> buf, result |-> 0]

\* if( Button < Buttons->Counter ) in Buttons_GetStatus
StatusIndexAccepted(kb, button) == button < kb.Counter

\* Buttons_GetEvent with the index test of Buttons_GetStatus.
EventIndexStrict(kb, button) == button < kb.Counter

\* if( Button <= Buttons->Counter ) in Buttons_GetEvent
EventIndexAccepted(kb, button) == button <= kb.Counter

\* BtnBuffer[Button - 1] lies inside the caller's array.
InArray(kb, button) == button - 1 >= 0 /\ button - 1 < kb.Buttons

\* ST_PRESS glitch test with the comparison inverted.
PressGlitchInverted(b, level) == level = b.ActiveLevel

\* ST_PRESS: "it was a spurios detection" branch, the pin no longer reads active
PressGlitch(b, level) == level # b.ActiveLevel
\* ST_PRESS: "the number of samples has been pass" branch
PressConfirm(b, samples) == b.Counter >= samples
\* ST_RELEASE: "it was a spurios detection" branch, the pin reads active again
ReleaseGlitch(b, level) == level = b.ActiveLevel
\* ST_RELEASE: "the number of samples has been pass" branch
ReleaseConfirm(b, samples) == b.Counter >= samples

\* Sample_Button whose ST_HOLD case falls back to ST_IDLE instead of ST_RELEASE.
SampleButtonHoldToIdle(b, samples, level) ==
    CASE b.smState = ST_IDLE ->
            IF level = b.ActiveLevel
            THEN [b EXCEPT !.smState = ST_PRESS, !.Counter = 0]
            ELSE b
      [] b.smState = ST_PRESS ->
            LET b1 == [b EXCEPT !.Counter = (b.Counter + 1) % 256]
                b2 == IF level # b1.ActiveLevel THEN [b1 EXCEPT !.smState = ST_IDLE] ELSE b1
            IN IF b2.Counter >= samples
               THEN [b2 EXCEPT !.Event = BTN_PRESSED, !.Status = BTN_ACTIVE,
                               !.smState = ST_HOLD]
               ELSE b2
      [] b.smState = ST_HOLD ->
            IF level # b.ActiveLevel
            THEN [b EXCEPT !.smState = ST_IDLE, !.Counter = 0]
            ELSE b
      [] b.smState = ST_RELEASE ->
            LET b1 == [b EXCEPT !.Counter = (b.Counter + 1) % 256]
                b2 == IF level = b1.ActiveLevel THEN [b1 EXCEPT !.smState = ST_HOLD] ELSE b1
            IN IF b2.Counter >= samples
               THEN [b2 EXCEPT !.Event = BTN_RELEASED, !.Status = BTN_INACTIVE,
                               !.smState = ST_IDLE]
               ELSE b2
      [] OTHER -> b

\* Sample_Button on button b with threshold samples, HAL_GPIO_ReadPin giving level.
SampleButton(b, samples, level) ==
    CASE b.smState = ST_IDLE ->
            IF level = b.ActiveLevel
            THEN [b EXCEPT !.smState = ST_PRESS, !.Counter = 0]
            ELSE b
      [] b.smState = ST_PRESS ->
            LET b1 == [b EXCEPT !.Counter = (b.Counter + 1) % 256]
                b2 == IF PressGlitch(b1, level) THEN [b1 EXCEPT !.smState = ST_IDLE] ELSE b1
            IN IF PressConfirm(b2, samples)
               THEN [b2 EXCEPT !.Event = BTN_PRESSED, !.Status = BTN_ACTIVE,
                               !.smState = ST_HOLD]
               ELSE b2
      [] b.smState = ST_HOLD ->
            IF level # b.ActiveLevel
            THEN [b EXCEPT !.smState = ST_RELEASE, !.Counter = 0]
            ELSE b
      [] b.smState = ST_RELEASE ->
            LET b1 == [b EXCEPT !.Counter = (b.Counter + 1) % 256]
                b2 == IF ReleaseGlitch(b1, level) THEN [b1 EXCEPT !.smState = ST_HOLD] ELSE b1
            IN IF ReleaseConfirm(b2, samples)
               THEN [b2 EXCEPT !.Event = BTN_RELEASED, !.Status = BTN_INACTIVE,
                               !.smState = ST_IDLE]
               ELSE b2
      [] OTHER -> b

\* The loop of Buttons_MainFunction from index btn on; levels[i] is what the pin
\* of button i reads in this call.
RECURSIVE MainLoop(_, _, _, _)
MainLoop(kb, buf, btn, levels) ==
    IF btn < kb.Counter
    THEN MainLoop(kb, [buf EXCEPT ![btn] = SampleButton(buf[btn], kb.Sample, levels[btn])],
                  (btn + 1) % 256, levels)
    ELSE buf

\* Buttons_MainFunction with the loop starting at the first button ID.
MainFunctionFromOne(kb, buf, levels) == MainLoop(kb, buf, 1, levels)

\* Buttons_MainFunction
MainFunction(kb, buf, levels) == MainLoop(kb, buf, 0, levels)

\* The queue takes no part in the specifications of the keyboard.
QueueUnused ==
    /\ Queue = [Buffer |-> "storage", Elements |-> 0, Size |-> 0,
                Head |-> 0, Tail |-> 0, Empty |-> TRUE, Full |-> FALSE]
    /\ Buffer = <<>>
    /\ Dest = <<>>
    /\ written = <<>>
    /\ lastCall = [op |-> "none", ret |-> TRUE, stored |-> 0]
    /\ wctx = [pc |-> "idle", data |-> <<>>]
    /\ rctx = [pc |-> "idle", expect |-> <<>>]
    /\ overlap = FALSE

\* The caller declares an array of NButtons ButtonType, uninitialised, and a
\* KeyboardType, and calls Buttons_Init on them.
InitButtons ==
    /\ QueueUnused
    /\ \E nbuttons \in 1..MaxButtons, samples \in 1..MaxSamples :
        /\ Keyboard = ButtonsInit([Buttons |-> 0, Sample |-> 0, Counter |-> 0],
                                  nbuttons, samples)
        /\ BtnBuffer \in [0..(nbuttons - 1) -> GarbageButton]
        /\ pins = [i \in 0..(nbuttons - 1) |-> -1]
        /\ hist = [levels |-> <<>>, resets |-> 0,
                   confirmed |-> [i \in 0..(nbuttons - 1) |-> <<>>], ticks |-> 0]
    /\ kbCall = [op |-> "Buttons_Init", arg |-> 0, ret |-> 0, oob |-> FALSE]

Buttons_Register ==
    \E pin \in Pins, port \in Ports, activeLevel \in Levels :
        LET r == Register(Keyboard, BtnBuffer, pin, port, activeLevel) IN
        /\ Keyboard' = r.kb
        /\ BtnBuffer' = r.buf
        /\ kbCall' = [op |-> "Buttons_Register", arg |-> <<pin, port, activeLevel>>,
                      ret |-> r.result, oob |-> FALSE]
        /\ UNCHANGED <<pins, hist, queuevars>>

\* Buttons_GetStatus. An accepted index whose slot Button - 1 lies outside the
\* array reads whatever byte is there.
Buttons_GetStatus ==
    \E button \in 0..(Keyboard.Buttons + 1) :
        /\ IF StatusIndexAccepted(Keyboard, button)
           THEN IF InArray(Keyboard, button)
                THEN kbCall' = [op |-> "Buttons_GetStatus", arg |-> button,
                                ret |-> BtnBuffer[button - 1].Status, oob |-> FALSE]
                ELSE \E any \in {BTN_INACTIVE, BTN_ACTIVE} :
                        kbCall' = [op |-> "Buttons_GetStatus", arg |-> button,
                                   ret |-> any, oob |-> TRUE]
           ELSE kbCall' = [op |-> "Buttons_GetStatus", arg |-> button,
                           ret |-> BTN_INACTIVE, oob |-> FALSE]
        /\ UNCHANGED <<Keyboard, BtnBuffer, pins, hist, queuevars>>

\* Buttons_GetEvent. An accepted index whose slot Button - 1 lies outside the
\* array reads whatever byte is there and writes BTN_IDLE over it.
Buttons_GetEvent ==
    \E button \in 0..(Keyboard.Buttons + 1) :
        /\ IF EventIndexAccepted(Keyboard, button)
           THEN IF InArray(Keyboard, button)
                THEN /\ kbCall' = [op |-> "Buttons_GetEvent", arg |-> button,
                                   ret |-> BtnBuffer[button - 1].Event, oob |-> FALSE]
                     /\ BtnBuffer' = [BtnBuffer EXCEPT ![button - 1].Event = BTN_IDLE]
                ELSE /\ \E any \in {BTN_IDLE, BTN_PRESSED, BTN_RELEASED} :
                            kbCall' = [op |-> "Buttons_GetEvent", arg |-> button,
                                       ret |-> any, oob |-> TRUE]
                     /\ UNCHANGED BtnBuffer
           ELSE /\ kbCall' = [op |-> "Buttons_GetEvent", arg |-> button,
                              ret |-> BTN_IDLE, oob |-> FALSE]
                /\ UNCHANGED BtnBuffer
        /\ UNCHANGED <<Keyboard, pins, hist, queuevars>>

\* One call of Buttons_MainFunction with the pins reading levels: the array, and
\* the history of the level each registered button's Sample_Button call read.
Tick(levels) ==
    /\ BtnBuffer' = MainFunction(Keyboard, BtnBuffer, levels)
    /\ pins' = [i \in DOMAIN pins |-> IF i < Keyboard.Counter THEN levels[i] ELSE pins[i]]
    /\ kbCall' = [op |-> "Buttons_MainFunction", arg |-> 0, ret |-> 0, oob |-> FALSE]
    /\ UNCHANGED <<Keyboard, queuevars>>

Buttons_MainFunction ==
    \E levels \in [0..(Keyboard.Counter - 1) -> Levels] :
        Tick(levels) /\ UNCHANGED hist

NextButtons ==
    \/ Buttons_Register
    \/ Buttons_GetStatus
    \/ Buttons_GetEvent
    \/ Buttons_MainFunction

SpecButtons == InitButtons /\ [][NextButtons]_vars

\* SpecTicks: after registration the keyboard is only sampled, at most MaxTicks
\* times, and the levels read for the first button are recorded.
Buttons_MainFunctionRecorded ==
    /\ Keyboard.Counter >= 1
    /\ Len(hist.levels) < MaxTicks
    /\ \E levels \in [0..(Keyboard.Counter - 1) -> Levels] :
        /\ Tick(levels)
        /\ hist' = [hist EXCEPT
                      !.levels = Append(hist.levels, levels[0]),
                      !.resets = IF BtnBuffer[0].smState = ST_PRESS
                                    /\ BtnBuffer'[0].smState = ST_IDLE
                                 THEN hist.resets + 1 ELSE hist.resets]

Buttons_RegisterFresh ==
    /\ hist.levels = <<>>
    /\ Buttons_Register

NextTicks ==
    \/ Buttons_RegisterFresh
    \/ Buttons_MainFunctionRecorded

SpecTicks == InitButtons /\ [][NextTicks]_vars

\* The event Sample_Button assigns to button b in a call reading level
\* (b->Event = BTN_PRESSED in ST_PRESS, BTN_RELEASED in ST_RELEASE), BTN_IDLE
\* when the call assigns none.
EventSet(b, samples, level) ==
    LET counted == [b EXCEPT !.Counter = (b.Counter + 1) % 256] IN
    CASE b.smState = ST_PRESS /\ PressConfirm(counted, samples) -> BTN_PRESSED
      [] b.smState = ST_RELEASE /\ ReleaseConfirm(counted, samples) -> BTN_RELEASED
      [] OTHER -> BTN_IDLE

\* The last two entries of a history.
LastTwo(seq) == IF Len(seq) > 2 THEN Tail(seq) ELSE seq

\* SpecEvents: the keyboard is registered, sampled and its events consumed, and
\* the events Sample_Button assigns to each button are recorded.
Buttons_MainFunctionLogged ==
    \E levels \in [0..(Keyboard.Counter - 1) -> Levels] :
        /\ Tick(levels)
        /\ hist' = [hist EXCEPT !.confirmed =
                      [i \in DOMAIN @ |->
                         IF i < Keyboard.Counter
                            /\ EventSet(BtnBuffer[i], Keyboard.Sample, levels[i]) # BTN_IDLE
                         THEN LastTwo(Append(@[i],
                                  EventSet(BtnBuffer[i], Keyboard.Sample, levels[i])))
                         ELSE @[i]]]

NextEvents ==
    \/ Buttons_Register
    \/ Buttons_GetEvent
    \/ Buttons_MainFunctionLogged

SpecEvents == InitButtons /\ [][NextEvents]_vars

\* SpecLive: the keyboard is registered and sampled, and Buttons_MainFunction
\* keeps being called (the driver is "a periodic function", buttons.c:6).
Buttons_MainFunctionLive ==
    \E levels \in [0..(Keyboard.Counter - 1) -> Levels] :
        /\ Tick(levels)
        /\ hist' = [hist EXCEPT !.ticks = 1 - @]

NextLive ==
    \/ Buttons_Register
    \/ Buttons_MainFunctionLive

SpecLive == InitButtons /\ [][NextLive]_vars /\ WF_vars(Buttons_MainFunctionLive)

(***************************************************************************)
(* Claims about the debouncer                                              *)
(***************************************************************************)

\* The last n levels recorded for the first button are all its active level.
LastActive(levels, n, activeLevel) ==
    /\ Len(levels) >= n
    /\ \A k \in (Len(levels) - n + 1)..Len(levels) : levels[k] = activeLevel

\* C8: press confirmation needs N uninterrupted active samples. A call of
\* Buttons_MainFunction turns a button's status from inactive to active only if
\* the pin read the active level in that call and in the N-1 calls before it.
\* (SpecTicks, first button, hist' holding the levels read up to this call.)
C8_PressNeedsNActive ==
    [][ ( /\ Keyboard.Counter >= 1
          /\ BtnBuffer[0].Status = BTN_INACTIVE
          /\ BtnBuffer'[0].Status = BTN_ACTIVE )
        => LastActive(hist'.levels, Keyboard.Sample, BtnBuffer[0].ActiveLevel) ]_vars

\* C9: glitch rejection during press confirmation. A call of Buttons_MainFunction
\* that finds a registered button in ST_PRESS and reads a level other than its
\* active level leaves it in ST_IDLE, status inactive, no pressed event; and the
\* glitch branch and the confirm branch of ST_PRESS are never both taken in one
\* call. (SpecButtons, every registered button, pins' the levels just read.)
C9_GlitchRejected ==
    [][ kbCall'.op = "Buttons_MainFunction" =>
          \A i \in 0..(Keyboard.Counter - 1) :
             BtnBuffer[i].smState = ST_PRESS =>
                LET counted == [BtnBuffer[i] EXCEPT !.Counter = (BtnBuffer[i].Counter + 1) % 256]
                IN /\ (pins'[i] # BtnBuffer[i].ActiveLevel =>
                          /\ BtnBuffer'[i].smState = ST_IDLE
                          /\ BtnBuffer'[i].Status = BTN_INACTIVE
                          /\ BtnBuffer'[i].Event # BTN_PRESSED)
                   /\ ~(PressGlitch(counted, pins'[i]) /\ PressConfirm(counted, Keyboard.Sample))
      ]_vars

\* The scenario's pin reads, TRUE for the active level.
ScenarioReads == <<TRUE, TRUE, FALSE, TRUE, TRUE, TRUE>>

\* The levels recorded for the first button are the first Len(levels) reads of
\* the scenario.
FollowsScenario(levels, activeLevel) ==
    /\ Len(levels) <= Len(ScenarioReads)
    /\ \A k \in 1..Len(levels) : (levels[k] = activeLevel) = ScenarioReads[k]

\* C10: debounce scenario. A freshly registered button with threshold 3 fed
\* [active, active, inactive, active, active, active] on six consecutive calls of
\* Buttons_MainFunction has its confirmation reset exactly once (at sample 3), is
\* inactive with no event after samples 1 to 5, and is active with a pending
\* pressed event right after sample 6. (SpecTicks, first button.)
C10_Scenario ==
    ( /\ Keyboard.Sample = 3
      /\ Keyboard.Counter >= 1
      /\ FollowsScenario(hist.levels, BtnBuffer[0].ActiveLevel) )
    => /\ hist.resets = (IF Len(hist.levels) >= 3 THEN 1 ELSE 0)
       /\ (Len(hist.levels) <= 5 =>
              BtnBuffer[0].Status = BTN_INACTIVE /\ BtnBuffer[0].Event = BTN_IDLE)
       /\ (Len(hist.levels) = 6 =>
              BtnBuffer[0].Status = BTN_ACTIVE /\ BtnBuffer[0].Event = BTN_PRESSED)

(***************************************************************************)
(* Claims about the keyboard interface                                     *)
(***************************************************************************)

\* Index button was handed out by Buttons_Register on keyboard kb.
Registered(kb, button) == 1 <= button /\ button <= kb.Counter

\* C11: one-shot events. For every registered index i (1 <= i <= count),
\* Buttons_GetEvent(i) returns the event pending for button i and clears it,
\* changing nothing but that button's Event field; a second Buttons_GetEvent(i)
\* right after it, with no Buttons_MainFunction call between, returns BTN_IDLE.
C11_OneShotEvent ==
    [][ /\ ( kbCall'.op = "Buttons_GetEvent" /\ Registered(Keyboard, kbCall'.arg) =>
                /\ kbCall'.ret = BtnBuffer[kbCall'.arg - 1].Event
                /\ ~kbCall'.oob
                /\ BtnBuffer' = [BtnBuffer EXCEPT ![kbCall'.arg - 1].Event = BTN_IDLE]
                /\ UNCHANGED <<Keyboard, pins>> )
        /\ ( /\ kbCall.op = "Buttons_GetEvent" /\ Registered(Keyboard, kbCall.arg)
             /\ kbCall'.op = "Buttons_GetEvent" /\ kbCall'.arg = kbCall.arg
             => kbCall'.ret = BTN_IDLE )
      ]_vars

\* C11 witness: Buttons_GetEvent on the last registered index just returned a
\* pressed event; the button is active and its event is cleared.
C11_Witness ==
    /\ kbCall.op = "Buttons_GetEvent" /\ kbCall.arg = Keyboard.Counter
    /\ Keyboard.Counter = MaxButtons
    /\ kbCall.ret = BTN_PRESSED /\ ~kbCall.oob
    /\ BtnBuffer[kbCall.arg - 1].Event = BTN_IDLE
    /\ BtnBuffer[kbCall.arg - 1].Status = BTN_ACTIVE

\* C12: registration contract. With K the capacity given to Buttons_Init, the
\* j-th call of Buttons_Register (j <= K) returns j, stores the pin, port and
\* active level it was given in slot j with status inactive, event none and
\* phase ST_IDLE, increments the registered count and touches no other slot; a
\* call made when the count equals K returns 0 and changes no state; and the
\* registered count never exceeds K.
C12_RegisterContract ==
    /\ [](Keyboard.Counter <= Keyboard.Buttons)
    /\ [][ kbCall'.op = "Buttons_Register" =>
             IF Keyboard.Counter < Keyboard.Buttons
             THEN /\ kbCall'.ret = Keyboard.Counter + 1
                  /\ Keyboard' = [Keyboard EXCEPT !.Counter = Keyboard.Counter + 1]
                  /\ BtnBuffer'[kbCall'.ret - 1].Pin = kbCall'.arg[1]
                  /\ BtnBuffer'[kbCall'.ret - 1].Port = kbCall'.arg[2]
                  /\ BtnBuffer'[kbCall'.ret - 1].ActiveLevel = kbCall'.arg[3]
                  /\ BtnBuffer'[kbCall'.ret - 1].Status = BTN_INACTIVE
                  /\ BtnBuffer'[kbCall'.ret - 1].Event = BTN_IDLE
                  /\ BtnBuffer'[kbCall'.ret - 1].smState = ST_IDLE
                  /\ \A i \in DOMAIN BtnBuffer :
                        i # Keyboard.Counter => BtnBuffer'[i] = BtnBuffer[i]
                  /\ UNCHANGED pins
             ELSE /\ kbCall'.ret = 0
                  /\ UNCHANGED <<Keyboard, BtnBuffer, pins>>
          ]_vars

\* C12 witness: the keyboard is full; the last Buttons_Register call was refused
\* while the first button was active with a pending event.
C12_Witness ==
    /\ kbCall.op = "Buttons_Register" /\ kbCall.ret = 0
    /\ Keyboard.Counter = Keyboard.Buttons /\ Keyboard.Buttons = MaxButtons
    /\ BtnBuffer[0].Status = BTN_ACTIVE /\ BtnBuffer[0].Event = BTN_PRESSED
    /\ BtnBuffer[1].Pin # BtnBuffer[0].Pin

\* C13: Buttons_GetStatus accepts every index handed out by Buttons_Register:
\* for 1 <= i <= count, i = count included, it returns exactly the confirmed
\* status of button i, reading only that button's slot.
C13_StatusOfRegistered ==
    ( kbCall.op = "Buttons_GetStatus" /\ Registered(Keyboard, kbCall.arg) )
    => /\ kbCall.ret = BtnBuffer[kbCall.arg - 1].Status
       /\ ~kbCall.oob

\* C14: out-of-range indices fail safe. For index 0 and every index above the
\* registered count, Buttons_GetStatus returns BTN_INACTIVE and Buttons_GetEvent
\* returns BTN_IDLE, and neither touches storage outside the caller's array.
C14_OutOfRangeFailSafe ==
    /\ ( kbCall.op = "Buttons_GetStatus" /\ ~Registered(Keyboard, kbCall.arg)
         => kbCall.ret = BTN_INACTIVE /\ ~kbCall.oob )
    /\ ( kbCall.op = "Buttons_GetEvent" /\ ~Registered(Keyboard, kbCall.arg)
         => kbCall.ret = BTN_IDLE /\ ~kbCall.oob )

\* C15: release confirmation is symmetric and glitch-safe. A call of
\* Buttons_MainFunction that finds a registered button in ST_RELEASE and reads
\* its active level leaves it in ST_HOLD, status active, event untouched,
\* whatever the counter; and a call turns a button's status from active to
\* inactive only if the pin read inactive in that call, with the counter at the
\* threshold or above and the released event set.
C15_ReleaseGlitchSafe ==
    [][ kbCall'.op = "Buttons_MainFunction" =>
          \A i \in 0..(Keyboard.Counter - 1) :
             /\ ( BtnBuffer[i].smState = ST_RELEASE /\ pins'[i] = BtnBuffer[i].ActiveLevel
                  => /\ BtnBuffer'[i].smState = ST_HOLD
                     /\ BtnBuffer'[i].Status = BTN_ACTIVE
                     /\ BtnBuffer'[i].Event = BtnBuffer[i].Event )
             /\ ( BtnBuffer[i].Status = BTN_ACTIVE /\ BtnBuffer'[i].Status = BTN_INACTIVE
                  => /\ pins'[i] # BtnBuffer[i].ActiveLevel
                     /\ BtnBuffer'[i].Counter >= Keyboard.Sample
                     /\ BtnBuffer'[i].Event = BTN_RELEASED )
      ]_vars

\* C16: status and event change only at confirmation. For every registered
\* button the status is active exactly when the phase is ST_HOLD or ST_RELEASE;
\* a step changes the status of a registered button only together with setting
\* its event (inactive to active with BTN_PRESSED, active to inactive with
\* BTN_RELEASED); and a Buttons_MainFunction call that moves a button only
\* within {ST_IDLE, ST_PRESS} or within {ST_HOLD, ST_RELEASE} leaves its status
\* and event unchanged.
C16_StatusFollowsPhase ==
    /\ [](\A i \in 0..(Keyboard.Counter - 1) :
            BtnBuffer[i].Status = BTN_ACTIVE <=> BtnBuffer[i].smState \in {ST_HOLD, ST_RELEASE})
    /\ [][ \A i \in 0..(Keyboard.Counter - 1) :
             /\ ( BtnBuffer'[i].Status # BtnBuffer[i].Status
                  => /\ kbCall'.op = "Buttons_MainFunction"
                     /\ \/ BtnBuffer'[i].Status = BTN_ACTIVE /\ BtnBuffer'[i].Event = BTN_PRESSED
                        \/ BtnBuffer'[i].Status = BTN_INACTIVE /\ BtnBuffer'[i].Event = BTN_RELEASED )
             /\ ( /\ kbCall'.op = "Buttons_MainFunction"
                  /\ \/ {BtnBuffer[i].smState, BtnBuffer'[i].smState} \subseteq {ST_IDLE, ST_PRESS}
                     \/ {BtnBuffer[i].smState, BtnBuffer'[i].smState} \subseteq {ST_HOLD, ST_RELEASE}
                  => /\ BtnBuffer'[i].Status = BtnBuffer[i].Status
                     /\ BtnBuffer'[i].Event = BtnBuffer[i].Event )
          ]_vars

\* C16 witness: after a Buttons_MainFunction call the first button is in
\* ST_RELEASE, still active, its pressed event consumed, and the second is in
\* ST_PRESS, still inactive, its released event pending.
C16_Witness ==
    /\ kbCall.op = "Buttons_MainFunction" /\ Keyboard.Counter = 2
    /\ BtnBuffer[0].smState = ST_RELEASE /\ BtnBuffer[0].Status = BTN_ACTIVE
    /\ BtnBuffer[0].Event = BTN_IDLE
    /\ BtnBuffer[1].smState = ST_PRESS /\ BtnBuffer[1].Status = BTN_INACTIVE
    /\ BtnBuffer[1].Event = BTN_RELEASED

\* C17: independent per-button sampling. A call of Buttons_MainFunction applies
\* Sample_Button exactly once to each registered button, with the level read
\* from that button's pin in this call, so that the button's new state depends
\* only on its own fields, that level and the shared threshold; it leaves the
\* unregistered slots, the registered count and the rest of the keyboard
\* unchanged and reads no pin of an unregistered slot.
C17_IndependentSampling ==
    [][ kbCall'.op = "Buttons_MainFunction" =>
          /\ Keyboard' = Keyboard
          /\ \A i \in DOMAIN BtnBuffer :
                IF i < Keyboard.Counter
                THEN /\ pins'[i] \in Levels
                     /\ BtnBuffer'[i] = SampleButton(BtnBuffer[i], Keyboard.Sample, pins'[i])
                ELSE /\ pins'[i] = pins[i]
                     /\ BtnBuffer'[i] = BtnBuffer[i]
      ]_vars

\* C17 witness: a call just confirmed the press of the only registered button
\* of a keyboard with two slots; the second slot still holds what the caller's
\* memory held, a phase of ST_RELEASE included, and its pin was never read.
C17_Witness ==
    /\ kbCall.op = "Buttons_MainFunction"
    /\ Keyboard.Buttons = 2 /\ Keyboard.Counter = 1
    /\ BtnBuffer[0].smState = ST_HOLD /\ BtnBuffer[0].Event = BTN_PRESSED
    /\ BtnBuffer[1].smState = ST_RELEASE /\ BtnBuffer[1].Counter = 255
    /\ pins[1] = -1

(***************************************************************************)
(* Queue occupancy (SpecQueue)                                             *)
(***************************************************************************)

\* C18: the flags track the occupancy exactly in sequential use. With C the
\* capacity given to Queue_Init, the number of elements stored (written and not
\* yet read since the last Queue_Init / Queue_FlushQueue) lies in 0..C; Full is
\* set exactly when it equals C; the last Queue_WriteData succeeded exactly if
\* fewer than C were stored when it was called, the last Queue_ReadData exactly
\* if at least one was; and Head = Tail implies Full or Empty.
C18_Occupancy ==
    /\ Len(written) \in 0..Queue.Elements
    /\ (Queue.Full <=> Len(written) = Queue.Elements)
    /\ (lastCall.op = "Queue_WriteData" =>
            (lastCall.ret <=> lastCall.stored < Queue.Elements))
    /\ (lastCall.op = "Queue_ReadData" =>
            (lastCall.ret <=> lastCall.stored >= 1))
    /\ (Queue.Head = Queue.Tail => Queue.Full \/ Queue.Empty)

\* C18 witness: a read just took one element out of a full queue of capacity 3:
\* two remain, Full is clear, Empty is clear, and Head differs from Tail.
C18_Witness ==
    /\ lastCall.op = "Queue_ReadData" /\ lastCall.ret
    /\ Queue.Elements = 3 /\ lastCall.stored = 3 /\ Len(written) = 2
    /\ ~Queue.Full /\ ~Queue.Empty /\ Queue.Head # Queue.Tail

(***************************************************************************)
(* Order of the confirmations (SpecEvents)                                 *)
(***************************************************************************)

\* C19: press and release confirmations alternate. For every registered button
\* the events Buttons_MainFunction assigns over time are pressed, released,
\* pressed, ...: the first is BTN_PRESSED and no two in a row are equal, whether
\* or not Buttons_GetEvent consumed them; and a call changes a button's Event
\* field exactly to the event recorded for it.
C19_Alternation ==
    /\ [](\A i \in 0..(Keyboard.Counter - 1) :
            LET c == hist.confirmed[i] IN
            /\ (Len(c) = 1 => c[1] = BTN_PRESSED)
            /\ (Len(c) = 2 => c[1] # c[2] /\ {c[1], c[2]} = {BTN_PRESSED, BTN_RELEASED}))
    /\ [][ kbCall'.op = "Buttons_MainFunction" =>
             \A i \in 0..(Keyboard.Counter - 1) :
                IF hist'.confirmed[i] # hist.confirmed[i]
                THEN BtnBuffer'[i].Event = hist'.confirmed[i][Len(hist'.confirmed[i])]
                ELSE BtnBuffer'[i].Event = BtnBuffer[i].Event
          ]_vars

\* C19 witness: the first button was confirmed pressed, released and pressed
\* again and its latest event is pending; the second was confirmed pressed once
\* and its event was consumed.
C19_Witness ==
    /\ Keyboard.Counter = 2
    /\ hist.confirmed[0] = <<BTN_RELEASED, BTN_PRESSED>>
    /\ BtnBuffer[0].Event = BTN_PRESSED
    /\ hist.confirmed[1] = <<BTN_PRESSED>>
    /\ BtnBuffer[1].Event = BTN_IDLE /\ BtnBuffer[1].Status = BTN_ACTIVE

(***************************************************************************)
(* Debounce liveness (SpecLive)                                            *)
(***************************************************************************)

\* Registered button i read its active level in the latest call.
ReadsActive(i) ==
    i < Keyboard.Counter /\ pins[i] = BtnBuffer[i].ActiveLevel

\* Registered button i read the other level in the latest call.
ReadsInactive(i) ==
    i < Keyboard.Counter /\ pins[i] \in Levels /\ pins[i] # BtnBuffer[i].ActiveLevel

\* Registered button i has the given status.
HasStatus(i, status) ==
    i < Keyboard.Counter /\ BtnBuffer[i].Status = status

\* C20: debounce liveness. With Buttons_MainFunction called again and again, for
\* every threshold and from every reachable state of a registered button: if
\* from some call on its pin reads the active level in every call, its status
\* eventually is active and stays active; if from some call on the pin reads the
\* inactive level in every call, its status eventually is inactive and stays so.
C20_DebounceLiveness ==
    \A i \in 0..(MaxButtons - 1) :
        /\ (<>[]ReadsActive(i) => <>[]HasStatus(i, BTN_ACTIVE))
        /\ (<>[]ReadsInactive(i) => <>[]HasStatus(i, BTN_INACTIVE))

\* C20 witness: with threshold MaxSamples the last registered button is in
\* ST_RELEASE with its counter one short of the threshold, and the latest call,
\* which read the inactive level, found it already there.
C20_Witness ==
    /\ Keyboard.Sample = MaxSamples /\ Keyboard.Counter = MaxButtons
    /\ ReadsInactive(MaxButtons - 1)
    /\ BtnBuffer[MaxButtons - 1].smState = ST_RELEASE
    /\ BtnBuffer[MaxButtons - 1].Counter = MaxSamples - 1
    /\ HasStatus(MaxButtons - 1, BTN_ACTIVE)

=============================================================================
